---- MODULE Spec2Model ----
(***************************************************************************)
(* State-machine model of src/app.py: the Streamlit "Reddit deep research" *)
(* run handler (fetch -> summarise in batches -> gists -> report ->        *)
(* reflection pass).  Text is a sequence of one-character strings; a JSON  *)
(* object is a function whose DOMAIN is its key set.                       *)
(***************************************************************************)
EXTENDS Integers, Sequences, FiniteSets, TLC

\* ------------------------------------------------------------------ bounds
MaxThreads == 3      \* posts the subreddit listing can yield in one run
MaxBatch == 3        \* largest `batch` argument of summarise_threads
MaxQuestions == 1    \* research questions entered
LongLen == 7480      \* length of the long title / gist used for the corpus cut

\* -------------------------------------------------------- program constants
BodyCut == 4000      \* t["body"][:4000]
CommentsCut == 6000  \* t["comments"][:6000]
CorpusCut == 15000   \* (...)[:15000]
QuestionsCut == 5    \* [...][:5]
TitleCut == 80       \* chunk[0]['title'][:80]

\* ------------------------------------------------------------------ text
Min(a, b) == IF a <= b THEN a ELSE b

\* Python s[:k] for k >= 0
Take(s, k) == SubSeq(s, 1, Min(k, Len(s)))

\* Python s[i:i+b] on a list, i a 0-based index
Slice(s, i, b) == SubSeq(s, i + 1, Min(i + b, Len(s)))

RECURSIVE Join(_, _)
\* sep.join(parts)
Join(sep, parts) ==
    IF parts = <<>> THEN <<>>
    ELSE IF Len(parts) = 1 THEN parts[1]
    ELSE parts[1] \o sep \o Join(sep, Tail(parts))

\* dict.get(k, d)
Get(m, k, d) == IF k \in DOMAIN m THEN m[k] ELSE d

Long == [k \in 1..LongLen |-> "x"]

\* --------------------------------------------------------------- summaries
\* The value stored under t["summary"]: kind "missing" is the absent key,
\* "dict" a JSON object (has_gist: whether it has the key "gist"), "other"
\* any JSON value that is not an object (string, number, list, null).
NoSummary == [kind |-> "missing", has_gist |-> FALSE, gist |-> <<>>]
EmptyDict == [kind |-> "dict", has_gist |-> FALSE, gist |-> <<>>]
GistDict(g) == [kind |-> "dict", has_gist |-> TRUE, gist |-> g]
NotADict == [kind |-> "other", has_gist |-> FALSE, gist |-> <<>>]

\* what the model can put under one id of a batch response
EntryValues == {GistDict(<<"g">>), EmptyDict, NotADict}

\* ------------------------------------------------------------------ posts
\* what reddit.subreddit(sub).new() can yield: two submissions share a URL
Posts ==
    { [title |-> <<"A">>, body |-> <<>>, comments |-> <<"c">>, url |-> <<"u">>,
        created |-> "2025-01-01"],
      [title |-> <<"B">>, body |-> <<"b">>, comments |-> <<>>, url |-> <<"u">>,
        created |-> "2025-01-02"] }

Questions == {"q1"}

VARIABLES
    pc,          \* position of the script run
    err,         \* the uncaught exception that ended the run, or "none"
    subreddit,   \* the subreddit text input, stripped
    questions,   \* the research questions
    batch,       \* the batch argument of summarise_threads
    threads,     \* the list the run owns
    total, done, i,   \* locals of summarise_threads
    summaries,   \* local of summarise_threads: the last parsed response
    calls,       \* every openai.chat.completions.create call issued, in order
    status,      \* status_slot: the last markdown written to it
    progress,    \* every progress_bar.progress(...) update, in order
    ticks,       \* number of timer_cb / clock_slot writes
    corpus, draft, report_md,   \* locals of generate_report and the handler
    page         \* elements appended to the page by the handler, in order

vars == <<pc, err, subreddit, questions, batch, threads, total, done, i, summaries, calls,
          status, progress, ticks, corpus, draft, report_md, page>>

\* --------------------------------------------------------------- exceptions
\* An exception nobody catches ends the script run.  (RaiseSwallowed is the
\* behaviour of a handler that records the exception and reports success.)
RaiseSwallowed(e) == pc' = "done" /\ err' = e

Raise(e) == pc' = "error" /\ err' = e

\* ------------------------------------------------------------------- Init
QuestionLists ==
    UNION {[1..k -> Questions] : k \in 0..MaxQuestions}

Init ==
    /\ pc = "idle"
    /\ err = "none"
    /\ subreddit \in {"", "horror"}
    /\ questions \in {Take(q, QuestionsCut) : q \in QuestionLists}
    /\ batch \in 1..MaxBatch
    /\ threads = <<>>
    /\ total = 0 /\ done = 0 /\ i = 0
    /\ summaries = <<>>
    /\ calls = <<>>
    /\ status = [kind |-> "empty", title |-> <<>>]
    /\ progress = <<>>
    /\ ticks = 0
    /\ corpus = <<>> /\ draft = <<>> /\ report_md = <<>>
    /\ page = <<>>

\* ------------------------------------------------------- the button handler
\* lines 188-198: validation, st.stop() on a missing subreddit or question
Run ==
    /\ pc = "idle"
    /\ IF subreddit = ""
         THEN pc' = "stopped" /\ page' = Append(page, [kind |-> "error", text |-> <<>>])
         ELSE IF questions = <<>>
           THEN pc' = "stopped" /\ page' = Append(page, [kind |-> "error", text |-> <<>>])
           ELSE pc' = "fetch" /\ page' = page
    /\ UNCHANGED <<err, subreddit, questions, batch, threads, total, done, i, summaries, calls,
                   status, progress, ticks, corpus, draft, report_md>>

\* ------------------------------------------------------------ fetch_threads
NewThread(id, post) ==
    [id |-> id, title |-> post.title, body |-> post.body,
     comments |-> post.comments, url |-> post.url, created |-> post.created,
     summary |-> NoSummary]

\* one iteration of the loop of lines 75-86
FetchPost ==
    /\ pc = "fetch"
    /\ Len(threads) < MaxThreads
    /\ \E post \in Posts :
         threads' = Append(threads, NewThread(Len(threads) + 1, post))
    /\ ticks' = ticks + 1
    /\ UNCHANGED <<pc, err, subreddit, questions, batch, total, done, i, summaries, calls,
                   status, progress, corpus, draft, report_md, page>>

\* praw raises (transport, auth): nothing catches it
FetchFail ==
    /\ pc = "fetch"
    /\ Raise("FetchError")
    /\ UNCHANGED <<subreddit, questions, batch, threads, total, done, i, summaries, calls,
                   status, progress, ticks, corpus, draft, report_md, page>>

\* line 87 returns; lines 204-207 enter summarise_threads (lines 92-93)
FetchReturn ==
    /\ pc = "fetch"
    /\ pc' = "sum_loop"
    /\ total' = Len(threads)
    /\ done' = 0
    /\ i' = 0
    /\ UNCHANGED <<err, subreddit, questions, batch, threads, summaries, calls,
                   status, progress, ticks, corpus, draft, report_md, page>>

\* -------------------------------------------------------- summarise_threads
\* line 94: the range(0, total, batch) loop has another index
LoopContinues == i < total

\* (a slice that always starts at the head of the list)
ChunkFromStart == Slice(threads, 0, batch)

\* line 95
Chunk == Slice(threads, i, batch)

\* (a step that is one too long)
NextIndexSkip == i + batch + 1

\* line 94: the next index of range(0, total, batch)
NextIndex == i + batch

\* lines 96-99: the payload text of one thread
Blob(t) ==
    t.title \o <<"\n", "\n">> \o Take(t.body, BodyCut)
      \o <<"\n", "\n", "C", "o", "m", "m", "e", "n", "t", "s", ":", "\n">>
      \o Take(t.comments, CommentsCut)

\* lines 96-99: {id: text}, in insertion order
Payload(chunk) == [k \in 1..Len(chunk) |-> [id |-> chunk[k].id, text |-> Blob(chunk[k])]]

Call(stage, payload, context, user) ==
    [stage |-> stage, payload |-> payload, context |-> context, user |-> user]

\* lines 95-111: build the chunk, show its first title, issue the call
SummariseCall ==
    /\ pc = "sum_loop"
    /\ LoopContinues
    /\ status' = [kind |-> "summarising", title |-> Take(Chunk[1].title, TitleCut)]
    /\ calls' = Append(calls, Call("summarise", Payload(Chunk), <<>>, <<>>))
    /\ pc' = "sum_wait"
    /\ UNCHANGED <<err, subreddit, questions, batch, threads, total, done, i, summaries,
                   progress, ticks, corpus, draft, report_md, page>>

ChunkIds == {Chunk[k].id : k \in 1..Len(Chunk)}

\* the JSON objects the model can answer a batch with: any subset of the
\* batch's ids as keys (keys that are no id of the batch are never looked up)
Responses == UNION {[K -> EntryValues] : K \in SUBSET ChunkIds}

\* (a merge that leaves a thread untouched when its id is absent)
MergedStrict(response) ==
    [k \in 1..Len(threads) |->
        IF k > i /\ k <= i + Len(Chunk)
          THEN [threads[k] EXCEPT !.summary = Get(response, threads[k].id, threads[k].summary)]
          ELSE threads[k]]

\* lines 113-114: for t in chunk: t["summary"] = summaries.get(t["id"], {})
Merged(response) ==
    [k \in 1..Len(threads) |->
        IF k > i /\ k <= i + Len(Chunk)
          THEN [threads[k] EXCEPT !.summary = Get(response, threads[k].id, EmptyDict)]
          ELSE threads[k]]

\* lines 111-114: the call returns text that json.loads turns into an object
SummariseMerge ==
    /\ pc = "sum_wait"
    /\ \E response \in Responses :
         /\ summaries' = response
         /\ threads' = Merged(response)
    /\ pc' = "sum_merged"
    /\ UNCHANGED <<err, subreddit, questions, batch, total, done, i, calls,
                   status, progress, ticks, corpus, draft, report_md, page>>

\* line 111 raises (network, auth, rate limit)
SummariseCallFails ==
    /\ pc = "sum_wait"
    /\ Raise("OpenAIError")
    /\ UNCHANGED <<subreddit, questions, batch, threads, total, done, i, summaries, calls,
                   status, progress, ticks, corpus, draft, report_md, page>>

\* line 112 raises: the text is not JSON
SummariseBadJson ==
    /\ pc = "sum_wait"
    /\ Raise("JSONDecodeError")
    /\ UNCHANGED <<subreddit, questions, batch, threads, total, done, i, summaries, calls,
                   status, progress, ticks, corpus, draft, report_md, page>>

\* line 114 raises on the first thread: the JSON value is a list, a string, a
\* number or null, which has no .get
SummariseNotAnObject ==
    /\ pc = "sum_wait"
    /\ Raise("AttributeError")
    /\ UNCHANGED <<subreddit, questions, batch, threads, total, done, i, summaries, calls,
                   status, progress, ticks, corpus, draft, report_md, page>>

\* (counting a full batch whatever the chunk holds)
DoneNextFull == done + batch

\* line 115
DoneNext == done + Len(Chunk)

\* lines 115-118, and the loop's step
SummariseProgress ==
    /\ pc = "sum_merged"
    /\ done' = DoneNext
    /\ progress' = Append(progress, [done |-> done', total |-> total])
    /\ ticks' = ticks + 1
    /\ i' = NextIndex
    /\ pc' = "sum_loop"
    /\ UNCHANGED <<err, subreddit, questions, batch, threads, total, summaries, calls,
                   status, corpus, draft, report_md, page>>

\* line 119, then the handler's line 209
SummariseReturn ==
    /\ pc = "sum_loop"
    /\ ~LoopContinues
    /\ status' = [kind |-> "complete", title |-> <<>>]
    /\ page' = Append(page, [kind |-> "success", text |-> <<>>])
    /\ pc' = "gists"
    /\ UNCHANGED <<err, subreddit, questions, batch, threads, total, done, i, summaries, calls,
                   progress, ticks, corpus, draft, report_md>>

\* ------------------------------------------------------- lines 210-211
\* {"title": ..., **t["summary"], "url": ...}: KeyError when the key is
\* absent, TypeError when the value is no mapping
ShowGists ==
    /\ pc = "gists"
    /\ IF \E k \in 1..Len(threads) : threads[k].summary.kind = "missing"
         THEN Raise("KeyError") /\ page' = page
         ELSE IF \E k \in 1..Len(threads) : threads[k].summary.kind # "dict"
           THEN Raise("TypeError") /\ page' = page
           ELSE /\ pc' = "report" /\ err' = err
                /\ page' = Append(page, [kind |-> "json", text |-> <<>>])
    /\ UNCHANGED <<subreddit, questions, batch, threads, total, done, i, summaries, calls,
                   status, progress, ticks, corpus, draft, report_md>>

\* ---------------------------------------------------------- generate_report
\* the en dash (U+2013) of line 142, one character
Dash == "-"

\* line 142: one thread's line
Line(t) ==
    t.title \o <<" ", Dash, " ">> \o Get([gist \in (IF t.summary.has_gist THEN {"gist"} ELSE {}) |-> t.summary.gist], "gist", <<>>)
      \o <<" ", "[", "U", "R", "L", "]", "(">> \o t.url \o <<")">>

Lines(ts) == [k \in 1..Len(ts) |-> Line(ts[k])]

\* lines 141-143 without the cut
Rendering(ts) == Join(<<"\n", "\n">>, Lines(ts))

\* (the rendering with no cut)
BuildCorpusNoCut(ts) == Rendering(ts)

\* lines 141-143
BuildCorpus(ts) == Take(Rendering(ts), CorpusCut)

\* line 145
QBlock(qs) == [k \in 1..Len(qs) |-> [n |-> k, q |-> qs[k]]]

\* lines 141-157: build the corpus and the question block, issue the call
Synthesise ==
    /\ pc = "report"
    /\ corpus' = BuildCorpus(threads)
    /\ calls' = Append(calls, Call("synthesise", <<>>, corpus', QBlock(questions)))
    /\ pc' = "synth_wait"
    /\ UNCHANGED <<err, subreddit, questions, batch, threads, total, done, i, summaries,
                   status, progress, ticks, draft, report_md, page>>

\* the texts a free-text call can return
Texts == {<<>>, <<"r">>}

\* lines 157-160 and 123-135: the draft arrives, the reflection call is issued
SynthesisReturns ==
    /\ pc = "synth_wait"
    /\ \E text \in Texts : draft' = text
    /\ ticks' = ticks + 1
    /\ calls' = Append(calls, Call("verify", <<>>, corpus, draft'))
    /\ pc' = "verify_wait"
    /\ UNCHANGED <<err, subreddit, questions, batch, threads, total, done, i, summaries,
                   status, progress, corpus, report_md, page>>

\* line 157 raises
SynthesisFails ==
    /\ pc = "synth_wait"
    /\ Raise("OpenAIError")
    /\ UNCHANGED <<subreddit, questions, batch, threads, total, done, i, summaries, calls,
                   status, progress, ticks, corpus, draft, report_md, page>>

\* lines 135-137, 160-161, 215-221: the reflection's text is the report
VerifyReturns ==
    /\ pc = "verify_wait"
    /\ \E text \in Texts : report_md' = text
    /\ ticks' = ticks + 2
    /\ page' = page \o <<[kind |-> "heading", text |-> <<>>],
                         [kind |-> "markdown", text |-> report_md']>>
    /\ pc' = "done"
    /\ UNCHANGED <<err, subreddit, questions, batch, threads, total, done, i, summaries, calls,
                   status, progress, corpus, draft>>

\* line 135 raises: generate_report has no handler (line 160), nor the script
VerifyFails ==
    /\ pc = "verify_wait"
    /\ Raise("OpenAIError")
    /\ UNCHANGED <<subreddit, questions, batch, threads, total, done, i, summaries, calls,
                   status, progress, ticks, corpus, draft, report_md, page>>

Next ==
    \/ Run
    \/ FetchPost
    \/ FetchFail
    \/ FetchReturn
    \/ SummariseCall
    \/ SummariseMerge
    \/ SummariseCallFails
    \/ SummariseBadJson
    \/ SummariseNotAnObject
    \/ SummariseProgress
    \/ SummariseReturn
    \/ ShowGists
    \/ Synthesise
    \/ SynthesisReturns
    \/ SynthesisFails
    \/ VerifyReturns
    \/ VerifyFails

Spec == Init /\ [][Next]_vars

\* ------------------------------------------- generate_report on its own
\* The thread lists generate_report can be handed: every thread summarised
\* with a mapping; titles and gists short or long.
SummarisedThreads ==
    UNION {[1..n -> {[id |-> 0, title |-> ti, body |-> <<>>, comments |-> <<>>,
                      url |-> <<"u">>, created |-> "2025-01-01", summary |-> su] :
                        ti \in {<<"A">>, Long},
                        su \in {EmptyDict, GistDict(<<"g">>), GistDict(Long)}}] :
           n \in 0..MaxThreads}

InitReport ==
    /\ pc = "report"
    /\ err = "none"
    /\ subreddit = "horror"
    /\ questions = <<"q1">>
    /\ batch = 1
    /\ threads \in {[k \in 1..Len(ts) |-> [ts[k] EXCEPT !.id = k]] : ts \in SummarisedThreads}
    /\ total = Len(threads) /\ done = Len(threads) /\ i = Len(threads)
    /\ summaries = <<>>
    /\ calls = <<>>
    /\ status = [kind |-> "complete", title |-> <<>>]
    /\ progress = <<>>
    /\ ticks = 0
    /\ corpus = <<>> /\ draft = <<>> /\ report_md = <<>>
    /\ page = <<>>

NextReport == Synthesise

SpecReport == InitReport /\ [][NextReport]_vars

\* ======================================================================
\* Properties
\* ======================================================================
SumCalls == SelectSeq(calls, LAMBDA c : c.stage = "summarise")

Ceil(n, b) == (n + b - 1) \div b

SummariseDone == pc \in {"gists", "report", "synth_wait", "verify_wait", "done"}
                   \/ (pc = "error" /\ err \in {"KeyError", "TypeError"})

\* C1: a summarise_threads run in which no call fails issues exactly
\* ceil(n/b) calls; the k-th call carries exactly the threads at (0-based)
\* positions (k-1)*b .. min(k*b, n)-1 in input order, so no batch holds more
\* than b threads and every thread is sent in exactly one call.
C1_Batching ==
    /\ \A k \in 1..Len(SumCalls) :
         LET lo == (k - 1) * batch
             hi == Min(k * batch, Len(threads))
             pl == SumCalls[k].payload
         IN  /\ lo < hi
             /\ Len(pl) = hi - lo
             /\ Len(pl) <= batch
             /\ \A j \in 1..Len(pl) : pl[j].id = threads[lo + j].id
    /\ SummariseDone =>
         /\ Len(SumCalls) = Ceil(Len(threads), batch)
         /\ \A p \in 1..Len(threads) :
              Cardinality({kj \in {<<k, j>> : k \in 1..Len(SumCalls), j \in 1..MaxBatch + 1} :
                             /\ kj[2] <= Len(SumCalls[kj[1]].payload)
                             /\ SumCalls[kj[1]].payload[kj[2]].id = threads[p].id}) = 1

C1_Witness ==
    /\ SummariseDone
    /\ Len(threads) = 3
    /\ batch = 2
    /\ Len(SumCalls) = 2

\* C2: after a batch's response (a mapping) is merged, each thread of the
\* batch whose id is a key of the response has exactly that entry as its
\* summary and each thread whose id is absent has the empty mapping; no
\* error is raised and the loop goes on to the progress update.
C2_LenientMerge ==
    pc = "sum_merged" =>
        /\ \A k \in 1..Len(threads) :
             (i < k /\ k <= i + batch) =>
                 IF threads[k].id \in DOMAIN summaries
                   THEN threads[k].summary = summaries[threads[k].id]
                   ELSE threads[k].summary = [kind |-> "dict", has_gist |-> FALSE, gist |-> <<>>]
        /\ err = "none"
        /\ ENABLED SummariseProgress

C2_Witness ==
    /\ pc = "sum_wait"
    /\ Len(SumCalls) = 2
    /\ batch = 2
    /\ threads[1].id \in DOMAIN summaries
    /\ threads[2].id \notin DOMAIN summaries
    /\ threads[1].summary.has_gist
    /\ threads[2].summary = EmptyDict

\* the References section the header comment announces: a heading, then one
\* bullet "* [title](url)" per thread in input order
ReferenceBullets(ts) ==
    [k \in 1..Len(ts) |-> <<"*", " ", "[">> \o ts[k].title \o <<"]", "(">> \o ts[k].url \o <<")">>]

ReferencesSection(ts) ==
    <<"\n", "#", " ", "R", "e", "f", "s", "\n">> \o Join(<<"\n">>, ReferenceBullets(ts))

RECURSIVE TextOf(_)
TextOf(elems) == IF elems = <<>> THEN <<>> ELSE elems[1].text \o TextOf(Tail(elems))

\* C3: the final output of a successful run is the report text followed by
\* a References section with one bullet (title, URL) per input thread, in
\* input order, duplicates kept.
C3_ReferencesShown ==
    pc = "done" =>
        TextOf(SelectSeq(page, LAMBDA e : e.kind \in {"markdown", "references"}))
          = report_md \o ReferencesSection(threads)

\* the rendering C4 describes, written out thread by thread
RECURSIVE NaiveRendering(_, _)
NaiveRendering(ts, k) ==
    IF k > Len(ts) THEN <<>>
    ELSE (IF k = 1 THEN <<>> ELSE <<"\n", "\n">>)
           \o ts[k].title \o <<" ", Dash, " ">>
           \o (IF ts[k].summary.has_gist THEN ts[k].summary.gist ELSE <<>>)
           \o <<" ", "[", "U", "R", "L", "]", "(">> \o ts[k].url \o <<")">>
           \o NaiveRendering(ts, k + 1)

\* C4: the corpus has at most 15000 characters and is a prefix of the
\* untruncated rendering; it equals the rendering when that has at most
\* 15000 characters and is otherwise exactly its first 15000 characters.
C4_CorpusCut ==
    pc = "synth_wait" =>
        LET full == NaiveRendering(threads, 1)
        IN  /\ Len(corpus) <= 15000
            /\ Len(corpus) <= Len(full)
            /\ corpus = SubSeq(full, 1, Len(corpus))
            /\ Len(full) <= 15000 => corpus = full
            /\ Len(full) > 15000 => Len(corpus) = 15000
            /\ calls[Len(calls)].context = corpus

\* the cut falls inside the third thread's line
C4_Witness ==
    /\ pc = "synth_wait"
    /\ Len(threads) = 3
    /\ Len(NaiveRendering(threads, 1)) > 15000
    /\ Len(corpus) = 15000
    /\ corpus[Len(corpus)] # ")"
    /\ corpus[Len(corpus)] # "\n"
    /\ Len(threads[1].title) > 1

LastCallIs(stage) == calls # <<>> /\ calls[Len(calls)].stage = stage

\* a summarisation batch's response was not a mapping from id to object
BadShape == \E id \in DOMAIN summaries : summaries[id].kind # "dict"

\* C5: when the call of a summarisation batch fails or its text does not
\* parse as a mapping from id to object, the run aborts there: no later
\* batch is called, no synthesis or verification call, no report.
C5_BadBatchAborts ==
    /\ BadShape => pc = "error"
    /\ (pc = "error" /\ LastCallIs("summarise")) =>
         /\ err # "none"
         /\ \A k \in 1..Len(page) : page[k].kind # "markdown"

\* the verification call was issued and raised
VerifyFailed == err = "OpenAIError" /\ LastCallIs("verify")

\* C6: when the verification call fails, the run ends with a propagated
\* error or with the draft and a warning; never with success and no report.
C6_VerifyFailureSurfaces ==
    VerifyFailed =>
        \/ /\ pc = "error"
           /\ \A k \in 1..Len(page) : page[k].kind # "markdown"
        \/ /\ pc = "done"
           /\ draft # <<>>
           /\ report_md = draft
           /\ \E k \in 1..Len(page) : page[k].kind = "warning"

C6_Witness == VerifyFailed /\ draft # <<>> /\ pc = "error"

Rank(c) == CASE c.stage = "summarise" -> 1
             [] c.stage = "synthesise" -> 2
             [] c.stage = "verify" -> 3

\* C7: stages run strictly in sequence: no call before the fetch returned;
\* summarisation calls in batch order, each issued only once every earlier
\* batch is merged; one synthesis call after all of them; one verification
\* call after the synthesis call returned.
C7_Sequential ==
    /\ calls # <<>> => (pc \notin {"idle", "fetch", "stopped"} /\ total = Len(threads))
    /\ pc \in {"idle", "fetch", "stopped"} \/ err = "FetchError" => calls = <<>>
    /\ \A k \in 1..Len(calls) : \A l \in 1..Len(calls) :
         k < l => /\ Rank(calls[k]) <= Rank(calls[l])
                  /\ Rank(calls[l]) > 1 => Rank(calls[k]) < Rank(calls[l])
    /\ \A k \in 1..Len(SumCalls) :
         /\ SumCalls[k].payload[1].id = threads[(k - 1) * batch + 1].id
         /\ \A p \in 1..Len(threads) :
              p <= (k - 1) * batch => threads[p].summary.kind # "missing"
    /\ pc \in {"sum_wait", "sum_merged"} => LastCallIs("summarise")
    /\ (\E k \in 1..Len(calls) : calls[k].stage = "synthesise") =>
         /\ Len(SumCalls) = Ceil(Len(threads), batch)
         /\ \A p \in 1..Len(threads) : threads[p].summary.kind # "missing"
         /\ calls[Len(SumCalls) + 1].context = corpus
         /\ pc \in {"synth_wait", "verify_wait", "done", "error"}
    /\ pc = "synth_wait" => LastCallIs("synthesise")
    /\ (\E k \in 1..Len(calls) : calls[k].stage = "verify") =>
         /\ Len(calls) = Len(SumCalls) + 2
         /\ calls[Len(calls) - 1].stage = "synthesise"
         /\ calls[Len(calls)].user = draft
         /\ pc \in {"verify_wait", "done", "error"}

C7_Witness ==
    /\ pc = "done"
    /\ Len(SumCalls) = 2
    /\ Len(calls) = 4

\* C8: once the summarisation stage has completed without error every thread
\* carries a summary that is a mapping.
C8_SummaryIsMapping ==
    SummariseDone => \A k \in 1..Len(threads) : threads[k].summary.kind = "dict"

\* C9: when a batch fails after earlier batches succeeded, something the run
\* has written names the threads summarised before the failure.
C9_FailureLogsSummarised ==
    (pc = "error" /\ LastCallIs("summarise") /\ done > 0) =>
        \E k \in 1..Len(page) :
            /\ page[k].kind = "log"
            /\ page[k].text = [p \in 1..done |-> threads[p].id]

\* C10: one progress update per completed batch, made after the batch is
\* merged; done is strictly increasing, 0 < done <= total at every update,
\* equal to total at the last update of a successful run; no update at all
\* for an empty list.
C10_Progress ==
    /\ Len(progress) * batch = i
    /\ Len(progress) <= Len(SumCalls) /\ Len(SumCalls) <= Len(progress) + 1
    /\ \A k \in 1..Len(progress) :
         /\ 0 < progress[k].done
         /\ progress[k].done <= progress[k].total
         /\ progress[k].total = Len(threads)
         /\ progress[k].done = Min(k * batch, Len(threads))
         /\ k > 1 => progress[k - 1].done < progress[k].done
         /\ \A p \in 1..progress[k].done : threads[p].summary.kind # "missing"
    /\ (SummariseDone /\ threads # <<>>) => progress[Len(progress)].done = Len(threads)
    /\ threads = <<>> => progress = <<>>

C10_Witness ==
    /\ SummariseDone
    /\ Len(threads) = 3
    /\ Len(progress) = 2
    /\ progress[2] = [done |-> 3, total |-> 3]

====
